---- MODULE Spec2Model ----
(***************************************************************************)
(* Model of reformat_monster.py: the record formatter                      *)
(* (write_monster_to_file), the document writer (write_monster) and the    *)
(* batch driver (__main__).                                                *)
(*                                                                         *)
(* Representation of Python values:                                        *)
(*   - a str that the code slices or .replace()s (title2, a source name)   *)
(*     is a sequence of one-character strings;                             *)
(*   - a free text handed to to_desc is a sequence of chunks, each chunk   *)
(*     one character that unicode_escape rewrites or a run of printable    *)
(*     ASCII characters that it leaves alone;                              *)
(*   - a dict whose iteration order reaches the output is a sequence of    *)
(*     [k, v] entries in insertion order; other dicts are functions;       *)
(*   - a value whose run-time type the code depends on is tagged           *)
(*     (PyInt, PyStr, PyList, PyDict, PyNone);                             *)
(*   - an output line is the sequence of the str() of print's arguments    *)
(*     (print joins them with one space).                                  *)
(***************************************************************************)
EXTENDS Integers, Sequences, FiniteSets, TLC

VARIABLES
    args,          \* parsed command line: [test, clean, monster]
    d,             \* the corpus: sequence of [key, monster] in file order
    pc,            \* position of __main__ / of the API caller
    idx,           \* index in d of the record the batch loop is at
    files,         \* output folder: file name -> sequence of lines
    parent,        \* folder one level up: file name -> sequence of lines
    stdout,        \* lines printed to standard output
    keys_present,  \* accumulator of __main__
    keys_used,     \* accumulator handed to the formatter (PyNone or a set)
    source_dict,   \* accumulator handed to the formatter (PyNone or a set)
    monster_in,    \* API level: the record under test
    ret,           \* what the last step did (its inputs, its outcome)
    prev           \* ret of the step before it

vars == <<args, d, pc, idx, files, parent, stdout, keys_present, keys_used,
          source_dict, monster_in, ret, prev>>

---------------------------------------------------------------------------
(* Bounds *)
MaxCorpus == 2
MaxLevel == 4
MaxCalls == 2
MaxTable == 3

---------------------------------------------------------------------------
(* Python values *)
PyNone == [t |-> "none"]
PyInt(n) == [t |-> "int", i |-> n]
PyStr(c) == [t |-> "str", c |-> c]
PyList(l) == [t |-> "list", l |-> l]
PyDict(e) == [t |-> "dict", e |-> e]
PySet(s) == [t |-> "set", s |-> s]

\* type(x): a type object, never an int
PyType(v) == [t |-> "type", of |-> v.t]
IsInstanceInt(v) == v.t = "int"

\* ordered dict: sequence of [k |-> key, v |-> value]
Keys(tbl) == [j \in 1..Len(tbl) |-> tbl[j].k]
Has(tbl, key) == \E j \in 1..Len(tbl) : tbl[j].k = key
Get(tbl, key) == tbl[CHOOSE j \in 1..Len(tbl) : tbl[j].k = key].v

RECURSIVE JoinChars(_)
\* ''.join(chars)
JoinChars(c) == IF c = <<>> THEN "" ELSE Head(c) \o JoinChars(Tail(c))

RECURSIVE JoinStr(_, _)
\* sep.join(items)
JoinStr(items, sep) ==
    IF items = <<>> THEN ""
    ELSE IF Len(items) = 1 THEN items[1]
    ELSE items[1] \o sep \o JoinStr(Tail(items), sep)

RECURSIVE JoinText(_, _)
\* sep.join(items) where each item is a text (sequence of chunks)
JoinText(items, sep) ==
    IF items = <<>> THEN <<>>
    ELSE IF Len(items) = 1 THEN items[1]
    ELSE items[1] \o <<sep>> \o JoinText(Tail(items), sep)

RECURSIVE Replace(_, _, _)
\* s.replace(c, r) on a sequence of characters, r a sequence of characters
Replace(s, c, r) ==
    IF s = <<>> THEN <<>>
    ELSE (IF Head(s) = c THEN r ELSE <<Head(s)>>) \o Replace(Tail(s), c, r)

\* s[n:]
SliceFrom(s, n) == SubSeq(s, n + 1, Len(s))

\* '{0:+}'.format(n) for an int n
SignedInt(n) == IF n >= 0 THEN "+" \o ToString(n) ELSE ToString(n)
\* the exception '{0:+}'.format(v) raises, "none" when it formats
SignedExc(v) ==
    CASE v.t = "int" -> "none"
      [] v.t = "str" -> "ValueError"
      [] OTHER -> "TypeError"
SignedStr(v) == SignedInt(v.i)

\* first exception of a sequence of '{0:+}'.format calls
SignedSeqExc(vs) ==
    IF \E j \in 1..Len(vs) : SignedExc(vs[j]) # "none"
    THEN SignedExc(vs[CHOOSE j \in 1..Len(vs) :
                        /\ SignedExc(vs[j]) # "none"
                        /\ \A h \in 1..(j - 1) : SignedExc(vs[h]) = "none"])
    ELSE "none"

\* wq
wq(s) == "\"" \o s \o "\""

\* unicode_escape of one chunk
UnicodeEscape(chunk) ==
    CASE chunk = "\n" -> "\\n"
      [] chunk = "\t" -> "\\t"
      [] chunk = "\\" -> "\\\\"
      [] chunk = "e-acute" -> "\\xe9"
      [] OTHER -> chunk

\* to_desc: the one line it prints
to_desc(txt) ==
    <<"    desc:", "\"" \o JoinChars([j \in 1..Len(txt) |-> UnicodeEscape(txt[j])]) \o "\"">>

---------------------------------------------------------------------------
(* Outcome of a stretch of the formatter: the lines written to f, the lines *)
(* printed to sys.stdout, the keys_used entries set, and the exception that *)
(* ended it ("none": it ran to its end).                                    *)
Ok(marks, lines) ==
    [lines |-> lines, std |-> <<>>, marks |-> marks, exc |-> "none", arg |-> ""]
Raise(marks, lines, exc, arg) ==
    [lines |-> lines, std |-> <<>>, marks |-> marks, exc |-> exc, arg |-> arg]
KeyErr(marks, lines, key) == Raise(marks, lines, "KeyError", "'" \o key \o "'")

---------------------------------------------------------------------------
(* write_monster_to_file, stretch by stretch, in source order.  m is       *)
(* monster_in.                                                             *)

\* str(v) of a tagged value
StrOf(v) ==
    CASE v.t = "int" -> ToString(v.i)
      [] v.t = "str" -> JoinChars(v.c)
      [] v.t = "none" -> "None"
      [] OTHER -> "?"

\* The fence of a block is three backquotes, a character a TLA+ string cannot
\* hold: it is written as three apostrophes.
Fence == "'''"

\* lines 84-85
S_title(m) ==
    IF "title2" \notin DOMAIN m THEN KeyErr({}, <<>>, "title2")
    ELSE Ok({"title2"}, <<>>)

monster_name(m) == JoinChars(m["title2"])

\* lines 87-97
S_front(m) ==
    Ok({}, << <<"---">>,
              <<"statblock: inline">>,
              <<"tags: monster">>,
              <<"name:", monster_name(m)>>,
              <<"---">>,
              <<Fence \o "statblock">>,
              <<"layout: Basic Pathfinder 1e Layout">> >>)

\* lines 100-103: the rendered source name
SourceName(source) ==
    LET prefixed == IF SliceFrom(source, 8) = <<"B", "e", "s", "t", "i", "a", "r", "y">>
                    THEN <<"P", "a", "t", "h", "f", "i", "n", "d", "e", "r", " ",
                           "R", "P", "G", " ">> \o source
                    ELSE source
    IN  IF \E j \in 1..Len(prefixed) : prefixed[j] = "#"
        THEN Replace(prefixed, "#", <<"N", "o", ".", " ">>)
        ELSE prefixed

\* a source line printed once per source name: only when source_dict does
\* not hold the name yet
S_sourceOnce(m, sd) ==
    IF "sources" \notin DOMAIN m THEN KeyErr({}, <<>>, "sources")
    ELSE IF m["sources"] = <<>> THEN Raise({}, <<>>, "IndexError", "list index out of range")
    ELSE IF sd.t = "none"
         THEN Raise({}, <<>>, "TypeError", "'NoneType' object does not support item assignment")
    ELSE IF m["sources"][1].name \in sd.s THEN Ok({}, <<>>)
    ELSE Ok({}, << <<"source: ", wq(JoinChars(SourceName(m["sources"][1].name)))>> >>)

\* lines 98-104 (sd is source_dict as passed)
S_source(m, sd) ==
    IF "sources" \notin DOMAIN m THEN KeyErr({}, <<>>, "sources")
    ELSE IF m["sources"] = <<>> THEN Raise({}, <<>>, "IndexError", "list index out of range")
    ELSE IF sd.t = "none"
         THEN Raise({}, <<>>, "TypeError", "'NoneType' object does not support item assignment")
    ELSE Ok({}, << <<"source: ", wq(JoinChars(SourceName(m["sources"][1].name)))>> >>)

\* line 99: source_dict after the call
SourceDictAfter(m, sd, reached) ==
    IF reached /\ sd.t = "set" /\ "sources" \in DOMAIN m /\ m["sources"] # <<>>
    THEN PySet(sd.s \cup {m["sources"][1].name})
    ELSE sd

\* a required scalar printed with its label: mark, then look up
ReqScalar(m, mark, key, label, isInt) ==
    IF key \notin DOMAIN m THEN KeyErr({mark}, <<>>, key)
    ELSE Ok({mark}, << <<label, IF isInt THEN ToString(m[key]) ELSE m[key]>> >>)

\* lines 106-107
S_CR(m) == ReqScalar(m, "CR", "CR", "Monster_CR:", FALSE)
\* lines 109-110
S_name(m) == Ok({"title1"}, << <<"name:", monster_name(m)>> >>)
\* lines 112-113
S_XP(m) == ReqScalar(m, "XP", "XP", "Monster_XP:", TRUE)
\* lines 115-117
S_race(m) ==
    Ok({"race"}, IF "race" \in DOMAIN m THEN << <<"race:", m["race"]>> >> ELSE <<>>)
\* lines 119-121
S_classes(m) ==
    Ok({"classes"}, IF "classes" \in DOMAIN m
                    THEN << <<"class:", wq(JoinStr(m["classes"], ", "))>> >> ELSE <<>>)
\* lines 123-124
S_alignment(m) == ReqScalar(m, "alignment", "alignment", "alignment:", FALSE)
\* lines 126-127
S_size(m) == ReqScalar(m, "size", "size", "size:", FALSE)
\* lines 129-130
S_type(m) == ReqScalar(m, "type", "type", "type:", FALSE)
\* lines 132-134
S_subtypes(m) ==
    Ok({"subtypes"}, IF "subtypes" \in DOMAIN m
                     THEN << <<"subtype: " \o wq("(" \o JoinStr(m["subtypes"], ", ") \o ")")>> >>
                     ELSE <<>>)

\* lines 137-143
S_initiative(m) ==
    LET mk == {"initiative"}
        ini == m["initiative"]
        b == ini["bonus"]
        \* the values a for-loop over the bonus visits
        elems == IF b.t = "list" THEN b.l ELSE [j \in 1..Len(b.c) |-> PyStr(<<b.c[j]>>)]
        joined == JoinStr([j \in 1..Len(elems) |-> SignedStr(elems[j])], "/")
    IN  IF "initiative" \notin DOMAIN m THEN KeyErr(mk, <<>>, "initiative")
        ELSE IF "t" \in DOMAIN ini
             THEN Raise(mk, <<>>, "TypeError", "'" \o ini.t \o "' object is not subscriptable")
        ELSE IF "bonus" \notin DOMAIN ini THEN KeyErr(mk, <<>>, "bonus")
        ELSE IF IsInstanceInt(b) THEN Ok(mk, << <<"INI:", SignedInt(b.i)>> >>)
        ELSE IF b.t \notin {"list", "str"}
             THEN Raise(mk, <<>>, "TypeError", "'" \o b.t \o "' object is not iterable")
        ELSE IF SignedSeqExc(elems) # "none"
             THEN Raise(mk, <<>>, SignedSeqExc(elems), "format")
        ELSE IF "ability" \in DOMAIN ini
             THEN Ok(mk, << <<"INI:", joined \o "; ", ini["ability"]>> >>)
        ELSE Ok(mk, << <<"INI:", joined>> >>)

\* lines 145-146
S_perception(m) ==
    LET p == Get(m["skills"], "Perception").us
    IN  IF "skills" \notin DOMAIN m THEN KeyErr({}, <<>>, "skills")
        ELSE IF ~Has(m["skills"], "Perception") THEN Ok({}, <<>>)
        ELSE IF SignedExc(p) # "none" THEN Raise({}, <<>>, SignedExc(p), "format")
        ELSE Ok({}, << <<"perception:", SignedStr(p)>> >>)

\* lines 148-156
S_senses(m) ==
    LET t == m["senses"]
        item(e) == IF IsInstanceInt(PyType(e.v)) THEN e.k \o " " \o StrOf(e.v) ELSE e.k
    IN  Ok({"senses"}, IF "senses" \in DOMAIN m
                       THEN << <<"senses:", wq(JoinStr([j \in 1..Len(t) |-> item(t[j])], ", "))>> >>
                       ELSE <<>>)

\* lines 158-163
S_auras(m) ==
    LET a == m["auras"]
    IN  Ok({"auras"}, IF "auras" \in DOMAIN m
                      THEN << <<"aura:", wq(JoinStr([j \in 1..Len(a) |-> a[j].name], ", "))>> >>
                      ELSE <<>>)

RECURSIVE AtEnd(_)
\* lines 169-174: at_end, built from the non-int components in order
AtEnd(comps) ==
    IF comps = <<>> THEN ""
    ELSE (IF IsInstanceInt(Head(comps).v) THEN ""
          ELSE "; " \o JoinStr(Head(comps).v.l, ", ")) \o AtEnd(Tail(comps))

\* lines 168-172: ac_bonuses, the int components in order
AcBonuses(comps) ==
    LET isInt(e) == IsInstanceInt(e.v)
        ints == SelectSeq(comps, isInt)
    IN  [j \in 1..Len(ints) |-> ints[j].k \o " " \o SignedInt(ints[j].v.i)]

\* lines 165-176
S_AC(m) ==
    LET mk == {"AC"}
        a == m["AC"]
        base == ToString(a["AC"]) \o ", touch " \o ToString(a["touch"])
                \o ", flat-footed " \o ToString(a["flat_footed"])
        comps == a["components"]
        bad == \E j \in 1..Len(comps) : comps[j].v.t \notin {"int", "list"}
    IN  IF "AC" \notin DOMAIN m THEN KeyErr(mk, <<>>, "AC")
        ELSE IF "AC" \notin DOMAIN a THEN KeyErr(mk, <<>>, "AC")
        ELSE IF "touch" \notin DOMAIN a THEN KeyErr(mk, <<>>, "touch")
        ELSE IF "flat_footed" \notin DOMAIN a THEN KeyErr(mk, <<>>, "flat_footed")
        ELSE IF "components" \notin DOMAIN a THEN Ok(mk, << <<"AC:", wq(base)>> >>)
        ELSE IF bad THEN Raise(mk, <<>>, "TypeError", "can only join an iterable")
        ELSE Ok(mk, << <<"AC:", wq(base \o " (" \o JoinStr(AcBonuses(comps), ", ")
                                   \o AtEnd(comps) \o ")")>> >>)

\* lines 178-187.  The keys of the HP table are chunk sequences with "_" a
\* chunk of its own, so that key.replace('_', ' ') is computed.
S_HP(m) ==
    LET hp == m["HP"]
        isExtra(e) == e.k # <<"HP">> /\ e.k # <<"long">>
        extra == SelectSeq(hp, isExtra)
        hp_special == [j \in 1..Len(extra) |->
                          JoinChars(Replace(extra[j].k, "_", <<" ">>)) \o " " \o StrOf(extra[j].v)]
        l1 == << <<"HP:", StrOf(Get(hp, <<"HP">>))>>,
                 <<"HP_extra:", wq(JoinStr(hp_special, "; "))>> >>
    IN  IF "HP" \notin DOMAIN m THEN KeyErr({"HP"}, <<>>, "HP")
        ELSE IF ~Has(hp, <<"HP">>) THEN KeyErr({"HP"}, <<>>, "HP")
        ELSE IF ~Has(hp, <<"long">>) THEN KeyErr({"HP", "HD"}, l1, "long")
        ELSE Ok({"HP", "HD"}, l1 \o << <<"HD:", StrOf(Get(hp, <<"long">>))>> >>)

\* lines 189-193
S_saves(m) ==
    LET mk == {"saves"}
        sv == m["saves"]
        three == <<sv["fort"], sv["ref"], sv["will"]>>
        l1 == << <<"saves:", wq("Fort " \o SignedStr(sv["fort"]) \o ", Ref " \o SignedStr(sv["ref"])
                               \o ", Will " \o SignedStr(sv["will"]))>> >>
    IN  IF "saves" \notin DOMAIN m THEN KeyErr(mk, <<>>, "saves")
        ELSE IF "fort" \notin DOMAIN sv THEN KeyErr(mk, <<>>, "fort")
        ELSE IF SignedExc(sv["fort"]) # "none" THEN Raise(mk, <<>>, SignedExc(sv["fort"]), "format")
        ELSE IF "ref" \notin DOMAIN sv THEN KeyErr(mk, <<>>, "ref")
        ELSE IF SignedExc(sv["ref"]) # "none" THEN Raise(mk, <<>>, SignedExc(sv["ref"]), "format")
        ELSE IF "will" \notin DOMAIN sv THEN KeyErr(mk, <<>>, "will")
        ELSE IF SignedExc(sv["will"]) # "none" THEN Raise(mk, <<>>, SignedExc(sv["will"]), "format")
        ELSE IF "other" \in DOMAIN sv
             THEN Ok(mk, l1 \o << <<"saves_other:", wq(sv["other"])>> >>)
        ELSE Ok(mk, l1)

\* an optional list of strings printed comma-joined and quoted
OptList(m, mark, key, label) ==
    Ok({mark}, IF key \in DOMAIN m
               THEN << <<label, wq(JoinStr(m[key], ", "))>> >> ELSE <<>>)

\* lines 195-197
S_immunities(m) == OptList(m, "immunities", "immunities", "immune:")

\* the resistances with each entry put in front of the earlier ones
S_resistancesReversed(m) ==
    LET t == m["resistances"]
        resist == [j \in 1..Len(t) |-> t[Len(t) + 1 - j].k \o " " \o ToString(t[Len(t) + 1 - j].v)]
    IN  Ok({"resistances"}, IF "resistances" \in DOMAIN m
                            THEN << <<"resist:", wq(JoinStr(resist, ", "))>> >> ELSE <<>>)

\* lines 199-204
S_resistances(m) ==
    LET t == m["resistances"]
        resist == [j \in 1..Len(t) |-> t[j].k \o " " \o ToString(t[j].v)]
    IN  Ok({"resistances"}, IF "resistances" \in DOMAIN m
                            THEN << <<"resist:", wq(JoinStr(resist, ", "))>> >> ELSE <<>>)

\* lines 206-211
S_DR(m) ==
    LET t == m["DR"]
        dr == [j \in 1..Len(t) |-> ToString(t[j].amount) \o "/" \o t[j].weakness]
    IN  Ok({"DR"}, IF "DR" \in DOMAIN m
                   THEN << <<"DR:", wq(JoinStr(dr, ", "))>> >> ELSE <<>>)

\* lines 213-215
S_defensive(m) ==
    IF "defensive_abilities" \in DOMAIN m
    THEN Ok({"defensive_abilities"},
            << <<"defensive_abilities:", wq(JoinStr(m["defensive_abilities"], ", "))>> >>)
    ELSE Ok({}, <<>>)

\* lines 217-219
S_SR(m) ==
    Ok({"SR"}, IF "SR" \in DOMAIN m THEN << <<"SR:", ToString(m["SR"])>> >> ELSE <<>>)

\* lines 221-223
S_weaknesses(m) == OptList(m, "weaknesses", "weaknesses", "weak:")

\* lines 236-243: the entries the loop over the speed table appends
SpeedRest(sp) ==
    LET kept(e) == e.k \notin {"base", "fly", "fly_maneuverability"}
        rest == SelectSeq(sp, kept)
    IN  [j \in 1..Len(rest) |->
            IF rest[j].k = "base_other" THEN " " \o StrOf(rest[j].v)
            ELSE rest[j].k \o " " \o StrOf(rest[j].v) \o " ft."]

\* lines 226-235: the base and fly entries
SpeedHead(sp) ==
    (IF Has(sp, "base") THEN <<StrOf(Get(sp, "base")) \o " ft.">> ELSE <<>>)
    \o (IF ~Has(sp, "fly") THEN <<>>
        ELSE IF Has(sp, "fly_maneuverability")
             THEN <<"fly " \o StrOf(Get(sp, "fly")) \o " ft. ("
                    \o StrOf(Get(sp, "fly_maneuverability")) \o ")">>
        ELSE IF Has(sp, "fly_other")
             THEN <<"fly " \o StrOf(Get(sp, "fly")) \o " ft. ("
                    \o StrOf(Get(sp, "fly_other")) \o ")">>
        ELSE <<"fly " \o StrOf(Get(sp, "fly")) \o " ft.">>)

\* lines 225-244
S_speeds(m) ==
    LET sp == m["speeds"]
    IN  IF "speeds" \notin DOMAIN m THEN KeyErr({"speeds"}, <<>>, "speeds")
        ELSE Ok({"speeds"},
                << <<"speed:", wq(JoinStr(SpeedHead(sp) \o SpeedRest(sp), ", "))>> >>)

\* lines 247-256: one of the melee / ranged lines
AttackLine(at, key, label) ==
    LET first == at[key][1]
    IN  << <<label, wq(JoinStr([j \in 1..Len(first) |-> first[j].text], ", "))>> >>

\* lines 246-258
S_attacks(m) ==
    LET mk == {"attacks"}
        at == m["attacks"]
        has(key) == "attacks" \in DOMAIN m /\ key \in DOMAIN at
        l1 == IF has("melee") THEN AttackLine(at, "melee", "melee:") ELSE <<>>
        l2 == IF has("ranged") THEN AttackLine(at, "ranged", "ranged:") ELSE <<>>
        l3 == IF has("special")
              THEN << <<"special_attacks:", wq(JoinStr(at["special"], ", "))>> >> ELSE <<>>
    IN  IF has("melee") /\ at["melee"] = <<>>
        THEN Raise(mk, <<>>, "IndexError", "list index out of range")
        ELSE IF has("ranged") /\ at["ranged"] = <<>>
        THEN Raise(mk, l1, "IndexError", "list index out of range")
        ELSE Ok(mk, l1 \o l2 \o l3)

\* lines 260-262
S_space(m) ==
    Ok({"space"}, IF "space" \in DOMAIN m
                  THEN << <<"space:", ToString(m["space"]), "ft.">> >> ELSE <<>>)

\* lines 264-272
S_reach(m) ==
    IF "reach" \notin DOMAIN m THEN Ok({"reach"}, <<>>)
    ELSE IF "reach_other" \in DOMAIN m
         THEN Ok({"reach", "reach_other"},
                 << <<"reach:", ToString(m["reach"]), "ft. (" \o m["reach_other"] \o ")">> >>)
    ELSE Ok({"reach"}, << <<"reach:", ToString(m["reach"]), "ft.">> >>)

RECURSIVE NameDesc(_)
\* a named list: per entry a name line and a desc line (lines 277-279,
\* 380-382); the values are texts
NameDesc(tbl) ==
    IF tbl = <<>> THEN <<>>
    ELSE << <<"  - name:", Head(tbl).k>>, to_desc(Head(tbl).v) >> \o NameDesc(Tail(tbl))

\* lines 274-279
S_tactics(m) ==
    Ok({"tactics"}, IF "tactics" \in DOMAIN m
                    THEN << <<"tactics:">> >> \o NameDesc(m["tactics"]) ELSE <<>>)

AbilityNames == <<"STR", "DEX", "CON", "INT", "WIS", "CHA">>

\* lines 281-288
S_ability_scores(m) ==
    LET mk == {"ability_scores"}
        ab == m["ability_scores"]
        missing == {j \in 1..6 : AbilityNames[j] \notin DOMAIN ab}
        firstMissing == CHOOSE j \in missing : \A h \in missing : j <= h
        stats == [j \in 1..6 |-> ToString(ab[AbilityNames[j]])]
    IN  IF "ability_scores" \notin DOMAIN m THEN KeyErr(mk, <<>>, "ability_scores")
        ELSE IF missing # {} THEN KeyErr(mk, <<>>, AbilityNames[firstMissing])
        ELSE Ok(mk, << <<"pf1e_stats:", "[" \o JoinStr(stats, ", ") \o "]">> >>)

\* lines 290-291
S_BAB(m) == ReqScalar(m, "BAB", "BAB", "BAB:", TRUE)

\* lines 293-298 and 300-305: CMB and CMD with their optional free text
Maneuver(m, key, other, label) ==
    IF key \notin DOMAIN m THEN KeyErr({other, key}, <<>>, key)
    ELSE IF other \in DOMAIN m
         THEN Ok({other, key}, << <<label, ToString(m[key]), "(" \o m[other] \o ")">> >>)
    ELSE Ok({other, key}, << <<label, ToString(m[key])>> >>)

\* lines 293-298
S_CMB(m) == Maneuver(m, "CMB", "CMB_other", "CMB:")
\* lines 300-305
S_CMD(m) == Maneuver(m, "CMD", "CMD_other", "CMD:")

\* lines 307-312
S_feats(m) ==
    LET t == m["feats"]
    IN  Ok({"feats"}, IF "feats" \in DOMAIN m
                      THEN << <<"feats:", wq(JoinStr([j \in 1..Len(t) |-> t[j].name], ", "))>> >>
                      ELSE <<>>)

\* F(x) with x evaluated once, whatever the number of uses F makes of it
Bind(F(_), x) == CHOOSE y \in {F(v) : v \in {x}} : TRUE

\* one stretch after another: the second runs only if the first did not raise
Then(r1, r2) ==
    Bind(LAMBDA a :
           IF a.exc # "none" THEN a
           ELSE Bind(LAMBDA b : [lines |-> a.lines \o b.lines, std |-> a.std \o b.std,
                                 marks |-> a.marks \cup b.marks, exc |-> b.exc, arg |-> b.arg],
                     r2),
         r1)

\* lines 339-345: the handler of the nested-mapping loop; k is the first
\* element the loop visited
RacialHandler(m, s, X, k, msg) ==
    IF "title1" \notin DOMAIN m
    THEN [lines |-> <<>>, std |-> << <<msg>> >>, marks |-> {},
          exc |-> "KeyError", arg |-> "'title1'"]
    ELSE [lines |-> <<>>,
          std |-> << <<msg>>, <<m["title1"]>>, <<k>>, <<s>>, <<StrOf(X)>> >>,
          marks |-> {}, exc |-> "SystemExit", arg |-> ""]

\* lines 331-345: one entry s -> X of the racial modifiers
RacialEntry(m, s, X) ==
    CASE X.t = "dict" ->
            IF Has(X.e, "_") THEN Ok({}, << <<"-", s, ToString(Get(X.e, "_"))>> >>)
            ELSE IF s = "_other" THEN Ok({}, << <<"-", StrOf(X)>> >>)
            ELSE Ok({}, [j \in 1..Len(X.e) |-> <<"-", s, ToString(X.e[j].v)>>])
      [] X.t = "str" ->
            IF \E j \in 1..Len(X.c) : X.c[j] = "_"
            THEN Raise({}, <<>>, "TypeError", "string indices must be integers")
            ELSE IF s = "_other" THEN Ok({}, << <<"-", JoinChars(X.c)>> >>)
            ELSE IF X.c = <<>> THEN Ok({}, <<>>)
            ELSE RacialHandler(m, s, X, X.c[1], "string indices must be integers")
      [] X.t = "list" ->
            IF \E j \in 1..Len(X.l) : X.l[j] = "_"
            THEN Raise({}, <<>>, "TypeError", "list indices must be integers or slices, not str")
            ELSE IF s = "_other" THEN Ok({}, << <<"-", StrOf(X)>> >>)
            ELSE IF X.l = <<>> THEN Ok({}, <<>>)
            ELSE RacialHandler(m, s, X, X.l[1],
                               "list indices must be integers or slices, not str")
      [] OTHER -> Raise({}, <<>>, "TypeError", "argument of type '" \o X.t \o "' is not iterable")

RECURSIVE RacialLoop(_, _)
\* lines 330-345
RacialLoop(m, rm) ==
    IF rm = <<>> THEN Ok({}, <<>>)
    ELSE Then(RacialEntry(m, Head(rm).k, Head(rm).v), RacialLoop(m, Tail(rm)))

\* lines 314-345.  A skill entry's value is [us |-> the '_' sub-value]; the
\* '_racial_mods' entry's value is [rm |-> the ordered table of racial modifiers].
S_skills(m) ==
    LET mk == {"skills"}
        sk == m["skills"]
        isSkill(e) == e.k # "_racial_mods"
        plain == SelectSeq(sk, isSkill)
        vals == [j \in 1..Len(plain) |-> plain[j].v.us]
        given == SelectSeq(vals, LAMBDA v : v.t # "none")
        val(v) == IF v.t = "none" THEN "" ELSE SignedStr(v)
        skills == [j \in 1..Len(plain) |-> plain[j].k \o " " \o val(vals[j])]
        l1 == << <<"skills:", wq(JoinStr(skills, ", "))>> >>
    IN  IF "skills" \notin DOMAIN m THEN Ok(mk, <<>>)
        ELSE IF SignedSeqExc(given) # "none" THEN Raise(mk, <<>>, SignedSeqExc(given), "format")
        ELSE IF ~Has(sk, "_racial_mods") THEN Ok(mk, l1)
        ELSE Then(Ok(mk, l1 \o << <<"racial_modifiers:">> >>),
                  RacialLoop(m, Get(sk, "_racial_mods").rm))

\* lines 347-349
S_languages(m) == OptList(m, "languages", "languages", "languages:")
\* lines 351-353
S_special_qualities(m) ==
    OptList(m, "special_qualities", "special_qualities", "special_qualities:")

RECURSIVE GearLines(_)
\* lines 358-360
GearLines(g) ==
    IF g = <<>> THEN <<>>
    ELSE << <<"  - name:", Head(g).k>>, to_desc(<<JoinStr(Head(g).v, ", ")>>) >>
         \o GearLines(Tail(g))

\* lines 355-360
S_gear(m) ==
    Ok({"gear"}, IF "gear" \in DOMAIN m THEN << <<"gear:">> >> \o GearLines(m["gear"]) ELSE <<>>)

\* lines 362-375
S_ecology(m) ==
    LET e == m["ecology"]
        env == IF "environment" \in DOMAIN e
               THEN << <<"  - name: Environment">>, to_desc(e["environment"]) >> ELSE <<>>
        org == IF "organization" \in DOMAIN e
               THEN << <<"  - name: Organisation">>, to_desc(e["organization"]) >> ELSE <<>>
        tre == IF "treasure" \in DOMAIN e /\ "treasure_type" \in DOMAIN e
               THEN << <<"  - name: Treasure">>,
                       to_desc(e["treasure_type"]
                               \o <<" (" \o JoinStr(e["treasure"], ", ") \o ")">>) >>
               ELSE IF "treasure_type" \in DOMAIN e
               THEN << to_desc(e["treasure_type"]) >>
               ELSE <<>>
    IN  Ok({"ecology"}, IF "ecology" \in DOMAIN m
                        THEN << <<"ecology:">> >> \o env \o org \o tre ELSE <<>>)

\* lines 377-382
S_special_abilities(m) ==
    Ok({"special_abilities"},
       IF "special_abilities" \in DOMAIN m
       THEN << <<"special_abilities:">> >> \o NameDesc(m["special_abilities"]) ELSE <<>>)

RECURSIVE FirstSeen(_)
\* the keys of a dict filled entry by entry, in insertion order
FirstSeen(ks) ==
    IF ks = <<>> THEN <<>>
    ELSE <<Head(ks)>> \o FirstSeen(SelectSeq(Tail(ks), LAMBDA x : x # Head(ks)))

\* lines 395-402: what one spell entry adds to its level's text
SpellText(entry) ==
    (IF "count" \in DOMAIN entry THEN ToString(entry["count"]) \o "x" ELSE "")
    \o entry["name"]
    \o (IF "DC" \in DOMAIN entry THEN " (DC" \o ToString(entry["DC"]) \o ")" ELSE "")

\* the header with 'th' after every level that is not 1, 2 or 3
SpellHeaderAllTh(key, source) ==
    LET nth == [x \in {"1", "2", "3"} |->
                   CASE x = "1" -> "st" [] x = "2" -> "nd" [] OTHER -> "rd"]
        ordinal == IF key \in DOMAIN nth THEN key \o nth[key] ELSE key \o "th"
    IN  IF "slots" \in DOMAIN source /\ key \in DOMAIN source["slots"]
        THEN IF key = "0" THEN ordinal \o " (at-will)"
             ELSE ordinal \o " (" \o ToString(source["slots"][key]) \o "/day)"
        ELSE ordinal

\* lines 409-419: the header of a spell level (key is str(level))
SpellHeader(key, source) ==
    LET nth == [x \in {"1", "2", "3"} |->
                   CASE x = "1" -> "st" [] x = "2" -> "nd" [] OTHER -> "rd"]
        ordinal == IF key \in DOMAIN nth THEN key \o nth[key]
                   ELSE IF key # "0" THEN key \o "th"
                   ELSE key
    IN  IF "slots" \in DOMAIN source /\ key \in DOMAIN source["slots"]
        THEN IF key = "0" THEN ordinal \o " (at-will)"
             ELSE ordinal \o " (" \o ToString(source["slots"][key]) \o "/day)"
        ELSE ordinal

\* lines 387-421: the lines of one spell source
SpellSource(source, entries) ==
    LET levelOf == [j \in 1..Len(entries) |-> ToString(entries[j]["level"])]
        keys == FirstSeen(levelOf)
        ofLevel(key) == SelectSeq(entries, LAMBDA en : ToString(en["level"]) = key)
        text(key) == JoinStr([j \in 1..Len(ofLevel(key)) |-> SpellText(ofLevel(key)[j])], ", ")
        RECURSIVE perLevel(_)
        perLevel(ks) ==
            IF ks = <<>> THEN <<>>
            ELSE << <<"  - name:", SpellHeader(Head(ks), source)>>, to_desc(<<text(Head(ks))>>) >>
                 \o perLevel(Tail(ks))
    IN  (CASE source["type"] = "prepared" -> << <<"spells_prepared:">> >>
           [] source["type"] = "known" -> << <<"known_spells:">> >>
           [] OTHER -> <<>>)
        \o << <<"  - name:">>, to_desc(<<"(CL " \o ToString(source["CL"]) \o ")">>) >>
        \o perLevel(keys)

RECURSIVE ConcatAll(_)
ConcatAll(ss) == IF ss = <<>> THEN <<>> ELSE Head(ss) \o ConcatAll(Tail(ss))

\* lines 384-421
S_spells(m) ==
    LET sp == m["spells"]
    IN  Ok({"spells"},
           IF "spells" \in DOMAIN m
           THEN ConcatAll([j \in 1..Len(sp["sources"]) |->
                              SpellSource(sp["sources"][j], sp["entries"])])
           ELSE <<>>)

\* lines 423-439
S_psychic_magic(m) ==
    LET pm == m["psychic_magic"]
        item(en) == IF "PE" \in DOMAIN en
                    THEN en["name"] \o " (PE" \o ToString(en["PE"])
                         \o (IF "DC" \in DOMAIN en THEN "; DC" \o ToString(en["DC"]) ELSE "")
                         \o ")"
                    ELSE en["name"]
        list == JoinStr([j \in 1..Len(pm["entries"]) |-> item(pm["entries"][j])], ", ")
        one(source) ==
            << <<"psychic_magic:">>, <<"  - name:">>,
               to_desc(<<ToString(source["CL"]) \o "; Concentration "
                         \o SignedInt(source["concentration"]) \o ")">>),
               <<"  - name:", ToString(pm["PE"]), "PE">>,
               to_desc(<<list>>) >>
    IN  Ok({"psychic_magic"},
           IF "psychic_magic" \in DOMAIN m
           THEN ConcatAll([j \in 1..Len(pm["sources"]) |-> one(pm["sources"][j])])
           ELSE <<>>)

\* lines 445-471: the lines of one spell-like-ability source
SlaSource(source, entries) ==
    LET mine == SelectSeq(entries, LAMBDA en : en["source"] = source["name"])
        keys == FirstSeen([j \in 1..Len(mine) |-> mine[j]["freq"]])
        item(en) == en["name"]
                    \o (IF "DC" \in DOMAIN en THEN " (DC " \o ToString(en["DC"]) \o ")" ELSE "")
        ofFreq(key) == SelectSeq(mine, LAMBDA en : en["freq"] = key)
        text(key) == JoinStr([j \in 1..Len(ofFreq(key)) |-> item(ofFreq(key)[j])], ", ")
        RECURSIVE perFreq(_)
        perFreq(ks) ==
            IF ks = <<>> THEN <<>>
            ELSE << <<"  - name:", Head(ks)>>, to_desc(<<text(Head(ks))>>) >> \o perFreq(Tail(ks))
    IN  << (IF source["name"] = "default" THEN <<"  - name:">>
            ELSE <<"  - name:", source["name"]>>),
           (IF "concentration" \in DOMAIN source
            THEN to_desc(<<"(CL " \o ToString(source["CL"]) \o "; Concentration "
                           \o SignedInt(source["concentration"]) \o ")">>)
            ELSE to_desc(<<"(CL " \o ToString(source["CL"]) \o ")">>)) >>
        \o perFreq(keys)

\* lines 441-471
S_spell_like_abilities(m) ==
    LET sla == m["spell_like_abilities"]
    IN  Ok({"spell_like_abilities"},
           IF "spell_like_abilities" \in DOMAIN m
           THEN << <<"spell-like_abilities:">> >>
                \o ConcatAll([j \in 1..Len(sla["sources"]) |->
                                 SlaSource(sla["sources"][j], sla["entries"])])
           ELSE <<>>)

RECURSIVE SourceLines(_)
\* lines 476-478
SourceLines(srcs) ==
    IF srcs = <<>> THEN <<>>
    ELSE << <<"  - name:", wq(JoinChars(Replace(Head(srcs).name, "#", <<"N", "o", ".", " ">>)))>>,
            to_desc(<<ToString(Head(srcs).page)>>) >>
         \o SourceLines(Tail(srcs))

\* lines 473-478
S_sources(m) ==
    Ok({"sources"}, IF "sources" \in DOMAIN m
                    THEN << <<"sources:">> >> \o SourceLines(m["sources"]) ELSE <<>>)

\* lines 480-482
S_desc_short(m) ==
    Ok({"desc_short"}, IF "desc_short" \in DOMAIN m
                       THEN << <<"desc_short:", m["desc_short"]>> >> ELSE <<>>)

\* line 484
S_close(m) == Ok({}, << <<Fence>> >>)

\* lines 486-489
S_desc_long(m) ==
    Ok({"desc_long"}, IF "desc_long" \in DOMAIN m
                      THEN << <<"# Description">>, <<m["desc_long"]>> >> ELSE <<>>)

\* lines 491-493 (url is PyNone or a PyStr of one chunk)
S_url(url) ==
    Ok({}, IF url.t # "none"
           THEN << <<"# Source Link">>, <<"[Archives of Nethys](" \o JoinChars(url.c) \o ")">> >>
           ELSE <<>>)

\* lines 495-499
EncounterTable(m) ==
    << <<Fence \o "encounter-table">>,
       <<"name:", monster_name(m)>>,
       <<"creatures:">>,
       <<"  - 1:", monster_name(m)>>,
       <<Fence>> >>

S_encounter(m) == Ok({}, EncounterTable(m))

---------------------------------------------------------------------------
\* lines 84-176
FormatHead(m, sd) ==
    Then(S_title(m), Then(S_front(m), Then(S_source(m, sd), Then(S_CR(m),
    Then(S_name(m), Then(S_XP(m), Then(S_race(m), Then(S_classes(m),
    Then(S_alignment(m), Then(S_size(m), Then(S_type(m), Then(S_subtypes(m),
    Then(S_initiative(m), Then(S_perception(m), Then(S_senses(m),
    Then(S_auras(m), S_AC(m)))))))))))))))))

\* lines 178-312
FormatBody(m) ==
    Then(S_HP(m), Then(S_saves(m), Then(S_immunities(m), Then(S_resistances(m),
    Then(S_DR(m), Then(S_defensive(m), Then(S_SR(m), Then(S_weaknesses(m),
    Then(S_speeds(m), Then(S_attacks(m), Then(S_space(m), Then(S_reach(m),
    Then(S_tactics(m), Then(S_ability_scores(m), Then(S_BAB(m), Then(S_CMB(m),
    Then(S_CMD(m), S_feats(m))))))))))))))))))

\* lines 314-499
FormatTail(m, url) ==
    Then(S_skills(m), Then(S_languages(m), Then(S_special_qualities(m),
    Then(S_gear(m), Then(S_ecology(m), Then(S_special_abilities(m),
    Then(S_spells(m), Then(S_psychic_magic(m), Then(S_spell_like_abilities(m),
    Then(S_sources(m), Then(S_desc_short(m), Then(S_close(m),
    Then(S_desc_long(m), Then(S_url(url), S_encounter(m)))))))))))))))

\* lines 75-499.  sd, ku: source_dict and keys_used as passed (PyNone: the
\* default); url: PyNone or a PyStr.  The result holds the lines written to
\* f, the lines printed to sys.stdout, the exception that left the function
\* ("none": it returned) and the arguments as the call leaves them.
write_monster_to_file(m, sd, ku, url) ==
    Bind(LAMBDA r :
           [lines |-> r.lines, std |-> r.std, exc |-> r.exc, arg |-> r.arg,
            source_dict |-> SourceDictAfter(m, sd, "title2" \in DOMAIN m),
            keys_used |-> IF ku.t = "none" THEN ku ELSE PySet(ku.s \cup r.marks),
            monster_in |-> m],
         Then(FormatHead(m, sd), Then(FormatBody(m), FormatTail(m, url))))

\* open(filename, 'w'): never refuses
OpenW(fs, filename) == "none"

\* line 69: open(filename, 'x') on the folder fs
OpenX(fs, filename) ==
    IF filename \in DOMAIN fs THEN "FileExistsError" ELSE "none"

\* lines 56-72.  filename: PyNone or PyStr(name); fs: the folder; out:
\* sys.stdout so far.
write_monster(m, filename, sd, ku, url, fs, out) ==
    IF filename.t = "none"
    THEN Bind(LAMBDA r :
                [files |-> fs, stdout |-> out \o r.lines \o r.std,
                 exc |-> r.exc, arg |-> r.arg,
                 source_dict |-> sd, keys_used |-> ku, monster_in |-> r.monster_in],
              write_monster_to_file(m, PyNone, PyNone, PyNone))
    ELSE IF OpenX(fs, filename.c) = "FileExistsError"
    THEN [files |-> fs,
          stdout |-> Append(out, <<"ERROR: file", JoinChars(filename.c),
                                   "already exists while processing key", StrOf(url)>>),
          exc |-> "none", arg |-> "",
          source_dict |-> sd, keys_used |-> ku, monster_in |-> m]
    ELSE Bind(LAMBDA r :
                [files |-> (filename.c :> r.lines) @@ fs, stdout |-> out \o r.std,
                 exc |-> r.exc, arg |-> r.arg,
                 source_dict |-> r.source_dict, keys_used |-> r.keys_used,
                 monster_in |-> r.monster_in],
              write_monster_to_file(m, sd, ku, url))

---------------------------------------------------------------------------
(* __main__.  A record identifier (a URL) is the sequence of its '/'       *)
(* separated parts, each part a sequence of chunks with "." , "NPC" and    *)
(* "Display" chunks of their own.                                          *)

\* str(key)
KeyStr(key) == JoinStr([j \in 1..Len(key) |-> JoinChars(key[j])], "/")

\* line 573: 'NPCDisplay' in key
ContainsNPCDisplay(key) ==
    \E p \in 1..Len(key) : \E j \in 1..(Len(key[p]) - 1) :
        key[p][j] = "NPC" /\ key[p][j + 1] = "Display"

\* lines 571-572: subdir (computed and never used); defined when the key has
\* four parts
subdir(key) ==
    LET part == key[4]
        dots == {j \in 1..Len(part) : part[j] = "."}
        stem == IF dots = {} THEN part
                ELSE SubSeq(part, 1, (CHOOSE j \in dots : \A h \in dots : j <= h) - 1)
    IN  JoinChars(Replace(stem, "Display", <<>>))

\* lines 574, 577: the output file name of a record with title2 = title
FileName(key, title) ==
    (IF ContainsNPCDisplay(key) THEN <<"N", "P", "C", " ">> ELSE <<>>)
    \o Replace(title, "/", <<" ", "o", "r", " ">>) \o <<".md">>

\* a loop that catches TypeError alone
CaughtTypeError(exc) == exc \in {"TypeError"}

\* line 580: the exceptions the batch loop catches
Caught(exc) == exc \in {"KeyError", "TypeError"}

\* x == n for an argparse value x (a str, or None) and an int n
PyEqInt(x, n) == x.t = "int" /\ x.i = n

\* lines 531-544: the item name `example` is bound to ("" : unbound)
Example(test) ==
    CASE PyEqInt(test, 1) -> "Brijidine"
      [] PyEqInt(test, 2) -> "Veranallia"
      [] PyEqInt(test, 3) -> "Uinuja"
      [] PyEqInt(test, 4) -> "Lillend"
      [] PyEqInt(test, 5) -> "Ghaele"
      [] PyEqInt(test, 6) -> "End%27s%20Voice"
      [] OTHER -> ""

\* truth value of an argparse value
Truthy(x) == x.t # "none" /\ x.c # <<>>

NoCall == [fn |-> "none"]

\* lines 530-546: the single-record test mode
TestMode ==
    /\ pc = "start"
    /\ Truthy(args.test)
    /\ LET ex == Example(args.test)
           hits == {j \in 1..Len(d) : d[j].key[Len(d[j].key)][Len(d[j].key[Len(d[j].key)])] = ex}
       IN  IF ex = ""
           THEN /\ pc' = "crashed"
                /\ ret' = [fn |-> "test", exc |-> "NameError", arg |-> "name 'example' is not defined"]
                /\ UNCHANGED stdout
           ELSE IF hits = {}
           THEN /\ pc' = "crashed"
                /\ ret' = [fn |-> "test", exc |-> "KeyError", arg |-> ex]
                /\ UNCHANGED stdout
           ELSE \E w \in {write_monster(d[CHOOSE j \in hits : TRUE].monster, PyNone, PyNone,
                                         PyNone, PyNone, files, stdout)} :
                    /\ stdout' = w.stdout
                    /\ pc' = IF w.exc = "none" THEN "done"
                             ELSE IF w.exc = "SystemExit" THEN "exited" ELSE "crashed"
                    /\ ret' = [fn |-> "test", exc |-> w.exc, arg |-> w.arg]
    /\ prev' = ret
    /\ UNCHANGED <<args, d, idx, files, parent, keys_present, keys_used, source_dict, monster_in>>

\* lines 547-563: the batch set-up, with the optional clean of the folder
BatchSetup ==
    /\ pc = "start"
    /\ ~Truthy(args.test)
    /\ keys_present' = {}
    /\ keys_used' = PySet({})
    /\ source_dict' = PySet({})
    /\ files' = IF args.clean
                THEN [n \in {x \in DOMAIN files : ~\E j \in 1..Len(x) : x[j] = ".md"} |-> files[n]]
                ELSE files
    /\ pc' = "loop"
    /\ idx' = 1
    /\ ret' = [fn |-> "setup", exc |-> "none"]
    /\ prev' = ret
    /\ UNCHANGED <<args, d, parent, stdout, monster_in>>

\* lines 565-581: how one iteration ends: on exception exc (arg its text)
\* with the folder fs, standard output out and the accumulators sd and ku
EndRecord(exc, arg, fs, out, sd, ku, fname) ==
    LET key == d[idx].key
    IN  /\ keys_present' = keys_present \cup DOMAIN d[idx].monster
        /\ files' = fs
        /\ source_dict' = sd
        /\ keys_used' = ku
        /\ stdout' = IF Caught(exc)
                     THEN Append(out, <<"ERROR: ", arg, "with", KeyStr(key)>>)
                     ELSE out
        /\ pc' = IF exc = "none" \/ Caught(exc) THEN "loop"
                 ELSE IF exc = "SystemExit" THEN "exited" ELSE "crashed"
        /\ idx' = IF exc = "none" \/ Caught(exc) THEN idx + 1 ELSE idx
        /\ ret' = [fn |-> "record", i |-> idx, key |-> key, m |-> d[idx].monster,
                   fname |-> fname, exc |-> exc, arg |-> arg,
                   files0 |-> files, stdout0 |-> stdout,
                   sd0 |-> source_dict, ku0 |-> keys_used]
        /\ prev' = ret

\* lines 565-581: one iteration of the batch loop
ProcessRecord ==
    /\ pc = "loop"
    /\ idx <= Len(d)
    /\ LET key == d[idx].key
           m0 == d[idx].monster
           fname == FileName(key, m0["title2"])
           m1 == IF ContainsNPCDisplay(key)
                 THEN [m0 EXCEPT !["title2"] = <<"N", "P", "C", " ">> \o @] ELSE m0
       IN  IF Len(key) < 4
           THEN /\ EndRecord("IndexError", "list index out of range", files, stdout,
                             source_dict, keys_used, PyNone)
                /\ UNCHANGED d
           ELSE IF "title2" \notin DOMAIN m0
           THEN /\ EndRecord("KeyError", "'title2'", files, stdout, source_dict, keys_used,
                             PyNone)
                /\ UNCHANGED d
           ELSE \E w \in {write_monster(m1, PyStr(fname), source_dict, keys_used,
                                        PyStr(<<KeyStr(key)>>), files, stdout)} :
                    /\ EndRecord(w.exc, w.arg, w.files, w.stdout, w.source_dict,
                                 w.keys_used, PyStr(fname))
                    /\ d' = [d EXCEPT ![idx].monster = w.monster_in]
    /\ UNCHANGED <<args, parent, monster_in>>

\* lines 583-593: after the loop, the optional synthetic test document,
\* written (mode 'w') one level above the output folder
AfterLoop ==
    /\ pc = "loop"
    /\ idx > Len(d)
    /\ parent' = IF Truthy(args.monster)
                 THEN ((args.monster.c \o <<"_test.md">>) :>
                          << <<Fence \o "statblock">>,
                             <<"monster:", JoinChars(args.monster.c)>>,
                             <<Fence>> >>) @@ parent
                 ELSE parent
    /\ pc' = "done"
    /\ ret' = [fn |-> "after", exc |-> "none"]
    /\ prev' = ret
    /\ UNCHANGED <<args, d, idx, files, stdout, keys_present, keys_used, source_dict,
                   monster_in>>

---------------------------------------------------------------------------
(* Inputs: the records, corpora and command lines the model runs over.     *)

With(m, key, val) == (key :> val) @@ m
Without(m, key) == [x \in DOMAIN m \ {key} |-> m[x]]

\* every sequence without repetition of at most n elements of S
Arrangements(S, n) ==
    UNION {{q \in [1..len -> S] : \A a, b \in 1..len : a # b => q[a] # q[b]} :
           len \in 0..(IF n < Cardinality(S) THEN n ELSE Cardinality(S))}

E(key, val) == [k |-> key, v |-> val]

\* the fields section 3 of the specification lists as required
RequiredSet ==
    {"title2", "CR", "XP", "alignment", "size", "type", "initiative", "AC", "HP",
     "saves", "ability_scores", "BAB", "CMB", "CMD", "speeds"}

\* a record holding exactly the required set
Required ==
    [title2 |-> <<"A">>, CR |-> "1/2", XP |-> 200, alignment |-> "CE",
     size |-> "Medium", type |-> "undead",
     initiative |-> [bonus |-> PyInt(5)],
     AC |-> [AC |-> 18, touch |-> 12, flat_footed |-> 16],
     HP |-> <<E(<<"HP">>, PyInt(30)), E(<<"long">>, PyStr(<<"4d8+12">>))>>,
     saves |-> [fort |-> PyInt(4), ref |-> PyInt(-1), will |-> PyInt(0)],
     ability_scores |-> [STR |-> 10, DEX |-> 12, CON |-> 14, INT |-> 8, WIS |-> 11, CHA |-> 6],
     BAB |-> 3, CMB |-> 4, CMD |-> 15,
     speeds |-> <<E("base", PyInt(30))>>]

SourceOf(name) == <<[name |-> name, page |-> 7]>>
NameBestiary == <<"B", "e", "s", "t", "i", "a", "r", "y">>
NameBestiary2 == NameBestiary \o <<" ", "2">>
NameShifted == <<"A", "P", " ", "#", "1", ":", " ", " ">> \o NameBestiary
NameAP == <<"A", "P", " ", "#", "3">>
NameOther == <<"M", "C">>
SourceNames == {NameBestiary, NameBestiary2, NameShifted, NameAP, NameOther}

\* the smallest record the formatter accepts
Minimal ==
    With(With(Required, "sources", SourceOf(NameOther)), "skills", <<>>)

Valid(title) == [Minimal EXCEPT !["title2"] = title]

SkillsFull ==
    <<E("Perception", [us |-> PyInt(7)]), E("Fly", [us |-> PyNone]),
      E("_racial_mods", [rm |-> <<E("Stealth", PyDict(<<E("_", 4)>>)),
                                  E("Climb", PyDict(<<E("in forests", 8), E("on ice", 2)>>)),
                                  E("_other", PyStr(<<"uses Dex">>))>>])>>

SpellsFull ==
    [sources |-> <<[type |-> "prepared", CL |-> 9, slots |-> [x \in {"0", "1"} |-> 3]]>>,
     entries |-> <<[level |-> 1, name |-> "bless", count |-> 2],
                   [level |-> 0, name |-> "light"],
                   [level |-> 1, name |-> "bane", DC |-> 14]>>]

\* a record with every optional field present
Full ==
    [x \in DOMAIN Required \cup
           {"sources", "skills", "title1", "race", "classes", "subtypes", "senses", "auras",
            "immunities", "resistances", "DR", "defensive_abilities", "SR", "weaknesses",
            "attacks", "space", "reach", "reach_other", "tactics", "CMB_other", "CMD_other",
            "feats", "languages", "special_qualities", "gear", "ecology",
            "special_abilities", "spells", "psychic_magic", "spell_like_abilities",
            "desc_short", "desc_long"} |->
        CASE x = "sources" -> <<[name |-> NameAP, page |-> 12], [name |-> NameOther, page |-> 3]>>
          [] x = "skills" -> SkillsFull
          [] x = "title1" -> "A"
          [] x = "race" -> "elf"
          [] x = "classes" -> <<"fighter 2", "rogue 1">>
          [] x = "subtypes" -> <<"elf", "human">>
          [] x = "senses" -> <<E("darkvision", PyInt(60)), E("scent", PyNone)>>
          [] x = "auras" -> <<[name |-> "fear"]>>
          [] x = "immunities" -> <<"cold", "fire">>
          [] x = "resistances" -> <<E("fire", 10), E("acid", 5)>>
          [] x = "DR" -> <<[amount |-> 5, weakness |-> "magic"]>>
          [] x = "defensive_abilities" -> <<"evasion">>
          [] x = "SR" -> 17
          [] x = "weaknesses" -> <<"light">>
          [] x = "attacks" -> [melee |-> << <<[text |-> "bite +5"], [text |-> "claw +3"]>> >>,
                               ranged |-> << <<[text |-> "bow +4"]>> >>,
                               special |-> <<"rend">>]
          [] x = "space" -> 10
          [] x = "reach" -> 5
          [] x = "reach_other" -> "10 ft. with tail"
          [] x = "tactics" -> <<E("Before Combat", <<"hides", "\n", "waits">>)>>
          [] x = "CMB_other" -> "+8 grapple"
          [] x = "CMD_other" -> "can't be tripped"
          [] x = "feats" -> <<[name |-> "Dodge"], [name |-> "Alertness"]>>
          [] x = "languages" -> <<"Common">>
          [] x = "special_qualities" -> <<"amphibious">>
          [] x = "gear" -> <<E("Combat Gear", <<"potion", "wand">>)>>
          [] x = "ecology" -> [environment |-> <<"any">>, organization |-> <<"solitary">>,
                               treasure |-> <<"gem">>, treasure_type |-> <<"standard">>]
          [] x = "special_abilities" -> <<E("Rend (Ex)", <<"caf", "e-acute", " ", "\\", " ">>)>>
          [] x = "spells" -> SpellsFull
          [] x = "psychic_magic" ->
                 [sources |-> <<[CL |-> 8, concentration |-> 12]>>, PE |-> 10,
                  entries |-> <<[name |-> "mind thrust", PE |-> 2, DC |-> 15],
                                [name |-> "detect thoughts"]>>]
          [] x = "spell_like_abilities" ->
                 [sources |-> <<[name |-> "default", CL |-> 6, concentration |-> 9],
                                [name |-> "Domain", CL |-> 4]>>,
                  entries |-> <<[source |-> "default", freq |-> "3/day", name |-> "fly"],
                                [source |-> "Domain", freq |-> "1/day", name |-> "heal", DC |-> 16],
                                [source |-> "default", freq |-> "3/day", name |-> "web", DC |-> 13]>>]
          [] x = "desc_short" -> "A pale elf."
          [] x = "desc_long" -> "It haunts ruins."
          [] OTHER -> Required[x]]

OptionalFields == DOMAIN Full \ (RequiredSet \cup {"sources", "skills"})

---------------------------------------------------------------------------
(* The batch: corpora, folders, command lines.                             *)

KeyOf(page, item) ==
    << <<"https:">>, <<>>, <<"aonprd", ".", "com">>,
       <<page, "Display", ".", "aspx?ItemName=", item>> >>
\* an identifier with no '/' in it
KeyShort(item) == << <<"Monster", "Display", ".", "aspx?ItemName=", item>> >>

TitleA == <<"A">>
TitleSlash == <<"A", "/", "B">>
TitleOr == <<"A", " ", "o", "r", " ", "B">>
TitleNPC == <<"N", "P", "C", " ", "A">>

RacialRecord(shape) ==
    With([Full EXCEPT !["title2"] = <<"R">>], "skills",
         <<E("Perception", [us |-> PyInt(7)]), E("_racial_mods", [rm |-> <<E("Stealth", shape)>>])>>)

\* the entries a corpus is drawn from
BatchEntries ==
    {[key |-> KeyOf("Monster", "a"), monster |-> Valid(TitleA)],
     [key |-> KeyOf("Monster", "b"), monster |-> Valid(TitleSlash)],
     [key |-> KeyOf("Monster", "c"), monster |-> Valid(TitleOr)],
     [key |-> KeyOf("NPC", "a"), monster |-> Valid(TitleA)],
     [key |-> KeyOf("Monster", "d"), monster |-> Valid(TitleNPC)],
     [key |-> KeyOf("Monster", "e"), monster |-> [Full EXCEPT !["title2"] = TitleA]],
     [key |-> KeyOf("Monster", "f"), monster |-> Without(Valid(<<"F">>), "CR")],
     [key |-> KeyOf("Monster", "g"), monster |-> Without(Valid(TitleA), "CMD")],
     [key |-> KeyOf("Monster", "h"), monster |-> Without(Valid(TitleA), "title2")],
     [key |-> KeyOf("NPC", "h"), monster |-> Without(Valid(TitleA), "title2")],
     [key |-> KeyOf("Monster", "i"), monster |-> With(Valid(<<"I">>), "sources", <<>>)],
     [key |-> KeyOf("Monster", "j"),
      monster |-> With(Valid(<<"J">>), "saves",
                       [fort |-> PyStr(<<"+4">>), ref |-> PyInt(1), will |-> PyInt(0)])],
     [key |-> KeyOf("Monster", "k"), monster |-> With(Valid(<<"K">>), "initiative", PyInt(5))],
     [key |-> KeyShort("l"), monster |-> Valid(<<"L">>)],
     [key |-> KeyOf("Monster", "m"), monster |-> RacialRecord(PyList(<<"+4 in forests">>))],
     [key |-> KeyOf("Monster", "n"),
      monster |-> Without(RacialRecord(PyStr(<<"+4 in forests">>)), "title1")],
     [key |-> KeyOf("Monster", "o"), monster |-> RacialRecord(PyInt(4))]}

\* a JSON mapping has each identifier once
Corpora ==
    {c \in Arrangements(BatchEntries, MaxCorpus) :
        /\ c # <<>>
        /\ \A a, b \in 1..Len(c) : a # b => c[a].key # c[b].key}

OldFile == << <<"an earlier run">> >>
Folders ==
    {<<>>,
     (<<"A", ".md">> :> OldFile) @@ (<<"notes", ".txt">> :> OldFile)}

ArgSets ==
    {[test |-> PyNone, clean |-> c, monster |-> mo] :
        c \in BOOLEAN, mo \in {PyNone, PyStr(<<"Goblin">>)}}
    \cup {[test |-> PyStr(<<"1">>), clean |-> FALSE, monster |-> PyNone]}

\* __main__ after the corpus is loaded (lines 510-528)
Init ==
    /\ args \in ArgSets
    /\ d \in Corpora
    /\ files \in Folders
    /\ parent = <<>>
    /\ pc = "start"
    /\ idx = 0
    /\ stdout = << <<"Loading data...", " done">> >>
    /\ keys_present = {}
    /\ keys_used = PyNone
    /\ source_dict = PyNone
    /\ monster_in = <<>>
    /\ ret = NoCall
    /\ prev = NoCall

Next == TestMode \/ BatchSetup \/ ProcessRecord \/ AfterLoop

Spec == Init /\ [][Next]_vars

---------------------------------------------------------------------------
(* The functions called one at a time: write_monster_to_file and           *)
(* write_monster on one record, up to MaxCalls calls in a row, with the    *)
(* accumulators carried from call to call.                                 *)

Levels == 0..MaxLevel
SpellEntry(level) == [level |-> level, name |-> "spell" \o ToString(level)]
\* one or two spell entries
SpellEntries ==
    {<<SpellEntry(a)>> : a \in Levels}
    \cup {<<SpellEntry(a), [SpellEntry(b) EXCEPT !["name"] = "other"]>> : a, b \in Levels}
SlotTables ==
    {[x \in S |-> IF x = "0" THEN 0 ELSE 3] : S \in SUBSET {"0", "1", ToString(MaxLevel)}}
SpellRecords ==
    {With(Minimal, "spells", [sources |-> <<[type |-> "known", CL |-> 5]>>, entries |-> en]) :
        en \in SpellEntries}
    \cup {With(Minimal, "spells",
               [sources |-> <<[type |-> "known", CL |-> 5, slots |-> sl]>>, entries |-> en]) :
             en \in SpellEntries, sl \in SlotTables}

ResistEntries == {E("fire", 10), E("acid", 5), E("cold", 20)}
ComponentEntries ==
    {E("dex", PyInt(2)), E("natural", PyInt(-1)), E("other", PyList(<<"+2 vs. evil">>))}
HPEntries ==
    {E(<<"HP">>, PyInt(30)), E(<<"long">>, PyStr(<<"4d8+12">>)),
     E(<<"fast", "_", "healing">>, PyInt(5)), E(<<"regeneration">>, PyStr(<<"5 (fire)">>))}
SkillEntries ==
    {E("Perception", [us |-> PyInt(7)]), E("Fly", [us |-> PyNone]),
     E("Stealth", [us |-> PyInt(-2)]),
     E("_racial_mods", [rm |-> <<E("Stealth", PyDict(<<E("_", 4)>>))>>])}
RacialEntries ==
    {E("Stealth", PyDict(<<E("_", 4)>>)),
     E("Climb", PyDict(<<E("in forests", 8), E("on ice", 2)>>)),
     E("_other", PyStr(<<"uses Dex">>))}
SenseEntries == {E("darkvision", PyInt(60)), E("scent", PyNone), E("low-light vision", PyNone)}
SpeedEntries ==
    {E("base", PyInt(30)), E("fly", PyInt(60)), E("fly_maneuverability", PyStr(<<"good">>)),
     E("fly_other", PyStr(<<"magic">>)), E("swim", PyInt(20)),
     E("base_other", PyStr(<<"20 ft. in armor">>))}

TableRecords ==
    {With(Minimal, "resistances", q) : q \in Arrangements(ResistEntries, MaxTable)}
    \cup {With(Minimal, "AC", [AC |-> 18, touch |-> 12, flat_footed |-> 16, components |-> q]) :
             q \in Arrangements(ComponentEntries, MaxTable)}
    \cup {With(Minimal, "HP", q) :
             q \in {h \in Arrangements(HPEntries, MaxTable + 1) :
                       Has(h, <<"HP">>) /\ Has(h, <<"long">>)}}
    \cup {With(Minimal, "skills", q) : q \in Arrangements(SkillEntries, MaxTable)}
    \cup {With(Minimal, "skills", <<E("_racial_mods", [rm |-> q])>>) :
             q \in Arrangements(RacialEntries, MaxTable)}
    \cup {With(Minimal, "senses", q) : q \in Arrangements(SenseEntries, MaxTable)}
    \cup {With(Minimal, "speeds", q) : q \in Arrangements(SpeedEntries, MaxTable)}

EcologyRecords ==
    {With(Minimal, "ecology", [x \in S |-> Full["ecology"][x]]) :
        S \in SUBSET DOMAIN Full["ecology"]}

FieldRecords ==
    {Required, Minimal, Full}
    \cup {Without(Full, x) : x \in DOMAIN Full}
    \cup {With(Minimal, x, Full[x]) : x \in OptionalFields}
    \cup {Without(Minimal, x) : x \in DOMAIN Minimal}
    \cup {With(Minimal, "sources", SourceOf(n)) : n \in SourceNames}
    \cup {With(Minimal, "initiative", ini) :
             ini \in {[bonus |-> PyList(<<PyInt(2), PyInt(4)>>)],
                      [bonus |-> PyList(<<PyInt(2), PyInt(-4)>>), ability |-> "in hybrid form"]}}

ApiRecords == FieldRecords \cup TableRecords \cup SpellRecords \cup EcologyRecords

Accumulators ==
    {[ku |-> PySet({}), sd |-> PySet({})],
     [ku |-> PySet({"race", "unrelated"}), sd |-> PySet({NameBestiary, NameOther})]}

ApiUrl == PyStr(<<"https://aonprd.com/MonsterDisplay.aspx?ItemName=A">>)
ApiFile == <<"A", ".md">>

InitApi ==
    /\ monster_in \in ApiRecords
    /\ \E a \in Accumulators : keys_used = a.ku /\ source_dict = a.sd
    /\ args = [test |-> PyNone, clean |-> FALSE, monster |-> PyNone]
    /\ d = <<>>
    /\ files = <<>>
    /\ parent = <<>>
    /\ pc = "api"
    /\ idx = 0
    /\ stdout = <<>>
    /\ keys_present = {}
    /\ ret = NoCall
    /\ prev = NoCall

\* a call of write_monster_to_file(monster_in, f, source_dict, keys_used, url)
\* on a fresh handle f
FormatCall ==
    /\ pc = "api"
    /\ idx < MaxCalls
    /\ \E url \in {PyNone, ApiUrl} :
       \E r \in {write_monster_to_file(monster_in, source_dict, keys_used, url)} :
          /\ ret' = [fn |-> "write_monster_to_file", m |-> monster_in, url |-> url,
                     sd |-> source_dict, ku |-> keys_used,
                     lines |-> r.lines, std |-> r.std, exc |-> r.exc, arg |-> r.arg,
                     files0 |-> files, stdout0 |-> stdout]
          /\ monster_in' = r.monster_in
          /\ source_dict' = r.source_dict
          /\ keys_used' = r.keys_used
          /\ stdout' = stdout \o r.std
    /\ prev' = ret
    /\ idx' = idx + 1
    /\ UNCHANGED <<args, d, pc, files, parent, keys_present>>

\* a call of write_monster(monster_in): no filename
WriteStdout ==
    /\ pc = "api"
    /\ idx < MaxCalls
    /\ \E w \in {write_monster(monster_in, PyNone, PyNone, PyNone, PyNone, files, stdout)} :
          /\ ret' = [fn |-> "write_monster", m |-> monster_in, filename |-> PyNone,
                     exc |-> w.exc, arg |-> w.arg, files0 |-> files, stdout0 |-> stdout]
          /\ monster_in' = w.monster_in
          /\ files' = w.files
          /\ stdout' = w.stdout
    /\ prev' = ret
    /\ idx' = idx + 1
    /\ UNCHANGED <<args, d, pc, parent, keys_present, keys_used, source_dict>>

\* a call of write_monster(monster_in, filename, source_dict, keys_used, url)
WriteFile ==
    /\ pc = "api"
    /\ idx < MaxCalls
    /\ \E w \in {write_monster(monster_in, PyStr(ApiFile), source_dict, keys_used, ApiUrl,
                               files, stdout)} :
          /\ ret' = [fn |-> "write_monster", m |-> monster_in, filename |-> PyStr(ApiFile),
                     exc |-> w.exc, arg |-> w.arg, files0 |-> files, stdout0 |-> stdout]
          /\ monster_in' = w.monster_in
          /\ files' = w.files
          /\ stdout' = w.stdout
          /\ source_dict' = w.source_dict
          /\ keys_used' = w.keys_used
    /\ prev' = ret
    /\ idx' = idx + 1
    /\ UNCHANGED <<args, d, pc, parent, keys_present>>

NextApi == FormatCall \/ WriteStdout \/ WriteFile

SpecApi == InitApi /\ [][NextApi]_vars

---------------------------------------------------------------------------
(* Properties.                                                             *)

\* the lines of a document whose first token is label
LinesWith(lines, label) == SelectSeq(lines, LAMBDA l : l[1] = label)

\* the step just taken was a call of the formatter
Formatted == ret.fn = "write_monster_to_file"

\* a whole document: front-matter fence first, encounter-table fence last
WholeDocument(lines) ==
    /\ lines # <<>>
    /\ lines[1] = <<"---">>
    /\ lines[Len(lines)] = <<Fence>>
    /\ Len(lines) >= 5
    /\ lines[Len(lines) - 4] = <<Fence \o "encounter-table">>

\* C1: a record that holds every field of the required set, with any subset of
\* the other fields, is formatted without an exception into a non-empty
\* document that starts with the front-matter fence and ends with the closing
\* fence of the encounter table.
C1_RequiredSetSuffices ==
    (Formatted /\ RequiredSet \subseteq DOMAIN ret.m)
        => (ret.exc = "none" /\ WholeDocument(ret.lines))

\* the first token of the lines an optional field gives rise to
LabelOf(field) ==
    CASE field = "race" -> {"race:"}
      [] field = "classes" -> {"class:"}
      [] field = "senses" -> {"senses:"}
      [] field = "auras" -> {"aura:"}
      [] field = "immunities" -> {"immune:"}
      [] field = "resistances" -> {"resist:"}
      [] field = "DR" -> {"DR:"}
      [] field = "defensive_abilities" -> {"defensive_abilities:"}
      [] field = "SR" -> {"SR:"}
      [] field = "weaknesses" -> {"weak:"}
      [] field = "attacks" -> {"melee:", "ranged:", "special_attacks:"}
      [] field = "space" -> {"space:"}
      [] field = "reach" -> {"reach:"}
      [] field = "tactics" -> {"tactics:"}
      [] field = "feats" -> {"feats:"}
      [] field = "skills" -> {"skills:", "perception:", "racial_modifiers:", "-"}
      [] field = "languages" -> {"languages:"}
      [] field = "special_qualities" -> {"special_qualities:"}
      [] field = "gear" -> {"gear:"}
      [] field = "ecology" -> {"ecology:"}
      [] field = "special_abilities" -> {"special_abilities:"}
      [] field = "spells" -> {"spells_prepared:", "known_spells:"}
      [] field = "psychic_magic" -> {"psychic_magic:"}
      [] field = "spell_like_abilities" -> {"spell-like_abilities:"}
      [] field = "sources" -> {"sources:", "source: "}
      [] field = "desc_short" -> {"desc_short:"}
      [] field = "desc_long" -> {"# Description"}
      [] OTHER -> {}

\* a desc line that follows no name line
OrphanDesc(lines) ==
    \E j \in 1..Len(lines) :
        /\ lines[j][1] = "    desc:"
        /\ (j = 1 \/ lines[j - 1][1] \notin {"  - name:", "  - name: Environment",
                                             "  - name: Organisation", "  - name: Treasure"})

\* C5: an optional field (a field outside the required set, or an optional
\* sub-field: the extra HP sub-fields, the ecology treasure) that is absent from
\* the record gives no output line at all, no empty line, no orphan sub-line,
\* and its absence causes no failure.
C5_OmissionLaw ==
    (Formatted /\ RequiredSet \subseteq DOMAIN ret.m)
        => /\ ret.exc = "none"
           /\ \A x \in DOMAIN Full \ (RequiredSet \cup DOMAIN ret.m) :
                 \A j \in 1..Len(ret.lines) : ret.lines[j][1] \notin LabelOf(x)
           /\ Len(ret.m["HP"]) = 2 => LinesWith(ret.lines, "HP_extra:") = <<>>
           /\ ~OrphanDesc(ret.lines)

\* the source name as the specification renders it
SpecSourceName(name) ==
    Replace((IF Len(name) >= 8 /\ SubSeq(name, 1, 8) = NameBestiary
             THEN <<"P", "a", "t", "h", "f", "i", "n", "d", "e", "r", " ", "R", "P", "G", " ">>
             ELSE <<>>) \o name,
            "#", <<"N", "o", ".", " ">>)

\* C8: the source line shows the name of the first sources entry, with
\* "Pathfinder RPG " in front when the name begins with "Bestiary" and with no
\* prefix otherwise, and with every '#' replaced by "No. ".
C8_SourceLine ==
    (Formatted /\ ret.exc = "none")
        => LinesWith(ret.lines, "source: ")
             = << <<"source: ", wq(JoinChars(SpecSourceName(ret.m["sources"][1].name)))>> >>

\* the record is one the formatter accepts when it is given its accumulators
Formats(m) == write_monster_to_file(m, PySet({}), PySet({}), PyNone).exc = "none"

\* C9: write_monster without a filename writes the whole document of a valid
\* record to standard output and creates or changes no file.
C9_NoPathMode ==
    (ret.fn = "write_monster" /\ ret.filename.t = "none" /\ Formats(ret.m))
        => /\ ret.exc = "none"
           /\ Len(stdout) > Len(ret.stdout0)
           /\ WholeDocument(SubSeq(stdout, Len(ret.stdout0) + 1, Len(stdout)))
           /\ files = ret.files0

---------------------------------------------------------------------------
(* Properties of the batch run.                                            *)

\* the step just taken was one iteration of the batch loop
Recorded == ret.fn = "record"

MissingRequired(m) == RequiredSet \ DOMAIN m

\* the record with its missing required fields put back
Restored(m) ==
    [x \in DOMAIN m \cup RequiredSet |-> IF x \in DOMAIN m THEN m[x] ELSE Minimal[x]]

\* the driver's error line for a missing field
ErrorLine(field, key) == <<"ERROR: ", "'" \o field \o "'", "with", KeyStr(key)>>

\* the iteration ended on the lookup failure of a missing required field: the
\* error line is the one line printed, no whole document was written for the
\* record, and the loop is at the next record
MissingFieldHandled ==
    /\ ret.exc = "KeyError"
    /\ \E f \in MissingRequired(ret.m) : stdout = Append(ret.stdout0, ErrorLine(f, ret.key))
    /\ \A n \in DOMAIN files :
          n \in DOMAIN ret.files0 \/ ~WholeDocument(files[n])
    /\ \A n \in DOMAIN ret.files0 : n \in DOMAIN files /\ files[n] = ret.files0[n]
    /\ pc = "loop"
    /\ idx = ret.i + 1

\* C2 as stated: in a batch run, a record that lacks a required field has its
\* formatting aborted, the driver prints an error line with the record's key
\* and the name of the missing field, and the loop goes on to the next record.
C2_MissingFieldLogged ==
    (Recorded /\ MissingRequired(ret.m) # {}) => MissingFieldHandled

\* the missing field is the first failure the iteration meets: the identifier
\* has its four parts, the output file does not exist yet, and the record has
\* no other fault
MissingFieldFirst ==
    /\ Recorded
    /\ MissingRequired(ret.m) # {}
    /\ Len(ret.key) >= 4
    /\ Formats(Restored(ret.m))
    /\ ("title2" \in DOMAIN ret.m => ret.fname.c \notin DOMAIN ret.files0)

\* C2 amended: when the absence of a required field is the first failure met
\* while a record is processed (its output file does not already exist), the
\* formatting of the record is aborted, the driver prints an error line with
\* the record's key and the missing field's name, and goes on to the next
\* record.
C2_FirstFailureMissingField == MissingFieldFirst => MissingFieldHandled

\* a record lacking a late required field failed, left its file cut short, and
\* the record after it was processed
C2_Witness ==
    /\ Recorded /\ prev.fn = "record"
    /\ ret.i = prev.i + 1
    /\ MissingRequired(prev.m) = {"CMD"}
    /\ prev.exc = "KeyError"
    /\ prev.fname.c \notin DOMAIN prev.files0
    /\ prev.fname.c \in DOMAIN ret.files0
    /\ ErrorLine("CMD", prev.key) = ret.stdout0[Len(ret.stdout0)]

\* write_monster was called with a filename that exists
ExistingFilename ==
    Recorded /\ ret.fname.t = "str" /\ ret.fname.c \in DOMAIN ret.files0

\* C3: a call of write_monster with a filename that already exists is refused:
\* the folder is as it was, the one thing printed is the diagnostic that names
\* the record's key, no exception reaches the driver, the accumulators are
\* untouched and the loop is at the next record.
C3_ExistingFileRefused ==
    ExistingFilename
        => /\ files = ret.files0
           /\ stdout = Append(ret.stdout0,
                              <<"ERROR: file", JoinChars(ret.fname.c),
                                "already exists while processing key", KeyStr(ret.key)>>)
           /\ ret.exc = "none"
           /\ source_dict = ret.sd0 /\ keys_used = ret.ku0
           /\ parent = <<>>
           /\ pc = "loop" /\ idx = ret.i + 1

\* a file of an earlier run was in the way of the first record of two
C3_Witness ==
    /\ ExistingFilename
    /\ ret.files0[ret.fname.c] = OldFile
    /\ ret.i = 1 /\ Len(d) = 2

\* the folder held nothing when the run started (a file of an earlier run is
\* never removed whole: the clean leaves notes.txt)
StartedEmpty == \A n \in DOMAIN files : files[n] # OldFile

\* every record of the corpus is one the formatter accepts
AllFormat ==
    \A j \in 1..Len(d) :
        /\ Len(d[j].key) >= 4
        /\ "title2" \in DOMAIN d[j].monster
        /\ Formats(d[j].monster)

\* C4: after a batch run into an empty folder over a corpus whose records all
\* format without failure, the folder holds one file per record.
C4_OneFilePerRecord ==
    (pc = "done" /\ StartedEmpty /\ AllFormat)
        => Cardinality(DOMAIN files) = Len(d)

---------------------------------------------------------------------------
(* Properties of the formatter called again and again.                     *)

\* two calls of the formatter in a row, with the same url
TwoCalls ==
    /\ Formatted
    /\ prev.fn = "write_monster_to_file"
    /\ prev.url = ret.url

\* C6: two calls of write_monster_to_file on the same record give the same
\* lines (and end the same way), whatever keys_used and source_dict held at
\* each call, and neither call changes the record.
C6_SameLinesTwice ==
    TwoCalls
        => /\ ret.m = prev.m
           /\ monster_in = ret.m
           /\ ret.lines = prev.lines
           /\ ret.exc = prev.exc

\* a whole document came out twice while the accumulators differed between
\* the calls
C6_Witness ==
    /\ TwoCalls
    /\ WholeDocument(ret.lines)
    /\ ret.sd # prev.sd
    /\ ret.ku # prev.ku
    /\ ret.m["sources"][1].name \in ret.sd.s

---------------------------------------------------------------------------
(* Properties of the keyed tables.                                         *)

Range(t) == {t[j] : j \in 1..Len(t)}

RECURSIVE Concat(_)
Concat(strs) == IF strs = <<>> THEN "" ELSE Head(strs) \o Concat(Tail(strs))

\* the one line with the label, or <<>>
TheLine(label) ==
    LET ls == LinesWith(ret.lines, label)
    IN  IF Len(ls) = 1 THEN ls[1] ELSE <<>>

\* the entries of a table, each rendered by item, in insertion order
InOrder(tbl, item(_)) == [j \in 1..Len(tbl) |-> item(tbl[j])]

ExpectedResist(t) ==
    JoinStr(InOrder(t, LAMBDA e : e.k \o " " \o ToString(e.v)), ", ")

ExpectedHPExtra(t) ==
    JoinStr(InOrder(SelectSeq(t, LAMBDA e : e.k \notin {<<"HP">>, <<"long">>}),
                    LAMBDA e : JoinChars(Replace(e.k, "_", <<" ">>)) \o " " \o StrOf(e.v)),
            "; ")

ExpectedSkills(t) ==
    JoinStr(InOrder(SelectSeq(t, LAMBDA e : e.k # "_racial_mods"),
                    LAMBDA e : e.k \o " " \o (IF e.v.us.t = "int" THEN SignedInt(e.v.us.i) ELSE "")),
            ", ")

ExpectedSenses(t) == JoinStr(InOrder(t, LAMBDA e : e.k), ", ")

\* the entries the loop over the speeds renders, after the base and fly
\* entries
ExpectedSpeedRest(t) ==
    InOrder(SelectSeq(t, LAMBDA e : e.k \notin {"base", "fly", "fly_maneuverability"}),
            LAMBDA e : IF e.k = "base_other" THEN " " \o StrOf(e.v)
                       ELSE e.k \o " " \o StrOf(e.v) \o " ft.")

\* the speed line ends with the remaining keys in insertion order
SpeedLineOrdered(t) ==
    \E head \in {<<>>} \cup {<<a>> : a \in {StrOf(e.v) \o " ft." : e \in {x \in Range(t) : x.k = "base"}}} :
    \E fly \in {<<>>} \cup {<<"fly " \o StrOf(e.v) \o " ft." \o par>> :
                               e \in {x \in Range(t) : x.k = "fly"},
                               par \in {""} \cup {" (" \o StrOf(x.v) \o ")" : x \in Range(t)}} :
        TheLine("speed:") = <<"speed:", wq(JoinStr(head \o fly \o ExpectedSpeedRest(t), ", "))>>

\* the lines of the racial modifiers of entry e
ExpectedRacial(e) ==
    IF e.v.t = "dict"
    THEN IF Has(e.v.e, "_") THEN << <<"-", e.k, ToString(Get(e.v.e, "_"))>> >>
         ELSE InOrder(e.v.e, LAMBDA x : <<"-", e.k, ToString(x.v)>>)
    ELSE << <<"-", StrOf(e.v)>> >>

IntComponent(e) == e.v.t = "int"
ListComponent(e) == e.v.t # "int"
ComponentBonus(e) == e.k \o " " \o SignedInt(e.v.i)
ComponentNote(e) == "; " \o JoinStr(e.v.l, ", ")

\* the AC components with every entry at its place of insertion
ComponentsInOrder(t) ==
    Concat([j \in 1..Len(t) |->
              IF ListComponent(t[j]) THEN ComponentNote(t[j])
              ELSE (IF \E h \in 1..(j - 1) : IntComponent(t[h]) THEN ", " ELSE "")
                   \o ComponentBonus(t[j])])

\* the AC components with the int entries in insertion order first and the
\* other entries in insertion order after them
ComponentsIntsFirst(t) ==
    JoinStr(InOrder(SelectSeq(t, IntComponent), ComponentBonus), ", ")
    \o Concat(InOrder(SelectSeq(t, ListComponent), ComponentNote))

ACLine(m, comps) ==
    <<"AC:", wq(ToString(m["AC"]["AC"]) \o ", touch " \o ToString(m["AC"]["touch"])
                \o ", flat-footed " \o ToString(m["AC"]["flat_footed"])
                \o " (" \o comps \o ")")>>

\* the tables other than the AC components come out in insertion order
TablesInOrder(m) ==
    /\ "resistances" \in DOMAIN m
          => TheLine("resist:") = <<"resist:", wq(ExpectedResist(m["resistances"]))>>
    /\ TheLine("HP_extra:") = <<"HP_extra:", wq(ExpectedHPExtra(m["HP"]))>>
    /\ SpeedLineOrdered(m["speeds"])
    /\ TheLine("skills:") = <<"skills:", wq(ExpectedSkills(m["skills"]))>>
    /\ Has(m["skills"], "_racial_mods")
          => LinesWith(ret.lines, "-")
               = ConcatAll(InOrder(Get(m["skills"], "_racial_mods").rm, ExpectedRacial))
    /\ "senses" \in DOMAIN m
          => TheLine("senses:") = <<"senses:", wq(ExpectedSenses(m["senses"]))>>

HasComponents(m) == "components" \in DOMAIN m["AC"]

\* C7 as stated: every keyed table the formatter iterates, the AC components
\* among them, comes out with its entries in the insertion order of the
\* record.
C7_InsertionOrder ==
    (Formatted /\ ret.exc = "none")
        => /\ TablesInOrder(ret.m)
           /\ HasComponents(ret.m)
                 => TheLine("AC:") = ACLine(ret.m, ComponentsInOrder(ret.m["AC"]["components"]))

\* C7 amended: resistances, HP sub-fields, remaining speed keys, skills,
\* racial modifiers and senses come out in insertion order; the AC components
\* come out with the int entries first, in insertion order, and the other
\* entries after them, in insertion order.
C7_InsertionOrderByKind ==
    (Formatted /\ ret.exc = "none")
        => /\ TablesInOrder(ret.m)
           /\ HasComponents(ret.m)
                 => TheLine("AC:") = ACLine(ret.m, ComponentsIntsFirst(ret.m["AC"]["components"]))

\* a table of AC components whose first entry is not an int, with two int
\* entries after it, was rendered
C7_Witness ==
    /\ Formatted /\ ret.exc = "none"
    /\ HasComponents(ret.m)
    /\ Keys(ret.m["AC"]["components"]) = <<"other", "natural", "dex">>
    /\ TheLine("AC:") = ACLine(ret.m, "natural -1, dex +2; +2 vs. evil")

---------------------------------------------------------------------------
(* Properties of the spell block.                                          *)

\* the header the specification gives a spell level under a source
ExpectedHeader(level, source) ==
    (CASE level = 0 -> "0"
       [] level = 1 -> "1st"
       [] level = 2 -> "2nd"
       [] level = 3 -> "3rd"
       [] OTHER -> ToString(level) \o "th")
    \o (IF "slots" \in DOMAIN source /\ ToString(level) \in DOMAIN source["slots"]
        THEN IF level = 0 THEN " (at-will)"
             ELSE " (" \o ToString(source["slots"][ToString(level)]) \o "/day)"
        ELSE "")

\* the record has spells, each source of a type that prints its label
HasSpells(m) ==
    /\ "spells" \in DOMAIN m
    /\ \A j \in 1..Len(m["spells"]["sources"]) :
          m["spells"]["sources"][j]["type"] \in {"prepared", "known"}

\* the header lines of source number s: the block of a source is its label,
\* the caster-level pair of lines, and a pair of lines per level
HeaderLines(m, s) ==
    LET sp == m["spells"]
        levels == {sp["entries"][j]["level"] : j \in 1..Len(sp["entries"])}
        n == Cardinality(levels)
        start == CHOOSE j \in 1..Len(ret.lines) :
                    /\ ret.lines[j] \in {<<"spells_prepared:">>, <<"known_spells:">>}
                    /\ \A h \in 1..(j - 1) :
                          ret.lines[h] \notin {<<"spells_prepared:">>, <<"known_spells:">>}
        from == start + (s - 1) * (3 + 2 * n)
    IN  {ret.lines[from + 1 + 2 * k] : k \in 1..n}

\* C10: the header of each spell level present among the entries is the level
\* with its ordinal suffix (none for 0), followed by " (at-will)" for level 0
\* and " (<slots>/day)" for another level when the slots table of the source
\* has the level, and by nothing when it has not.
C10_SpellLevelHeaders ==
    (Formatted /\ ret.exc = "none" /\ HasSpells(ret.m))
        => \A s \in 1..Len(ret.m["spells"]["sources"]) :
              HeaderLines(ret.m, s)
                = {<<"  - name:", ExpectedHeader(l, ret.m["spells"]["sources"][s])>> :
                      l \in {ret.m["spells"]["entries"][j]["level"] :
                                j \in 1..Len(ret.m["spells"]["entries"])}}

\* level 0 with a slots entry and the highest level with a slots entry were
\* rendered together
C10_Witness ==
    /\ Formatted /\ ret.exc = "none" /\ HasSpells(ret.m)
    /\ HeaderLines(ret.m, 1)
         = {<<"  - name:", "0 (at-will)">>,
            <<"  - name:", ToString(MaxLevel) \o "th (3/day)">>}

---------------------------------------------------------------------------
(* Properties of the batch run: failures.                                  *)

\* the kinds of failure of a record: a missing key, a wrong value type, an
\* empty list or an identifier with too few parts, a value that '{0:+}' cannot
\* format
FailureKinds == {"KeyError", "TypeError", "IndexError", "ValueError"}

\* the iteration just taken failed in one of these ways
RecordFailed == Recorded /\ ret.exc \in FailureKinds

\* the failure was caught: the driver's error line with the record's key is
\* the last line printed and the loop is at the next record
FailureCaught ==
    /\ stdout # <<>>
    /\ stdout[Len(stdout)][1] = "ERROR: "
    /\ stdout[Len(stdout)][Len(stdout[Len(stdout)])] = KeyStr(ret.key)
    /\ pc = "loop"
    /\ idx = ret.i + 1

\* C11: whatever way the processing of one record fails (missing key, wrong
\* value type, empty sources list, a value that cannot be formatted as a signed
\* number, an identifier with too few '/' parts), the driver catches the
\* failure, logs it with the record's key and goes on to the next record; a
\* batch run never dies on a record.
C11_FaultIsolation ==
    /\ RecordFailed => FailureCaught
    /\ pc = "crashed" => Truthy(args.test)

\* the racial modifiers of a record, <<>> when it has none
RacialMods(m) ==
    IF "skills" \in DOMAIN m /\ Has(m["skills"], "_racial_mods")
    THEN Get(m["skills"], "_racial_mods").rm ELSE <<>>

\* an entry of one of the three shapes: a mapping (with a '_' sub-value, or
\* iterated key by key) or the '_other' free text
RecognisedShape(e) == e.v.t = "dict" \/ e.k = "_other"

UnexpectedShape(m) ==
    \E j \in 1..Len(RacialMods(m)) : ~RecognisedShape(RacialMods(m)[j])

\* the record without its racial modifiers
WithoutRacial(m) ==
    [m EXCEPT !["skills"] = SelectSeq(m["skills"], LAMBDA e : e.k # "_racial_mods")]

\* the formatter was called on a record with an entry of unexpected shape and
\* nothing else wrong, into a file that did not exist
UnexpectedShapeMet ==
    /\ Recorded
    /\ Len(ret.key) >= 4
    /\ "title2" \in DOMAIN ret.m
    /\ ret.fname.c \notin DOMAIN ret.files0
    /\ UnexpectedShape(ret.m)
    /\ Formats(WithoutRacial(ret.m))

\* C12: a racial modifier whose value has none of the three recognised shapes
\* ends the whole run: the process terminates inside the formatter and no
\* later record is processed.
C12_UnexpectedShapeEndsRun ==
    UnexpectedShapeMet
        => /\ ret.exc = "SystemExit"
           /\ pc = "exited"
           /\ idx = ret.i

---------------------------------------------------------------------------
(* Properties of the speed line.                                           *)

\* fly_other is the text in the parentheses of the fly speed
FlyOtherUsed(t) == Has(t, "fly") /\ ~Has(t, "fly_maneuverability") /\ Has(t, "fly_other")

\* the keys the base and fly parts have consumed
SpeedConsumed(t) ==
    {"base", "fly", "fly_maneuverability"}
    \cup (IF FlyOtherUsed(t) THEN {"fly_other"} ELSE {})

\* the speed line as the specification gives it: base, fly, then each key not
\* consumed, once
ExpectedSpeed(t) ==
    JoinStr((IF Has(t, "base") THEN <<StrOf(Get(t, "base")) \o " ft.">> ELSE <<>>)
            \o (IF ~Has(t, "fly") THEN <<>>
                ELSE <<"fly " \o StrOf(Get(t, "fly")) \o " ft."
                       \o (IF Has(t, "fly_maneuverability")
                           THEN " (" \o StrOf(Get(t, "fly_maneuverability")) \o ")"
                           ELSE IF Has(t, "fly_other")
                           THEN " (" \o StrOf(Get(t, "fly_other")) \o ")"
                           ELSE "")>>)
            \o InOrder(SelectSeq(t, LAMBDA e : e.k \notin SpeedConsumed(t)),
                       LAMBDA e : IF e.k = "base_other" THEN " " \o StrOf(e.v)
                                  ELSE e.k \o " " \o StrOf(e.v) \o " ft."),
            ", ")

\* C13: the speed line is the base speed when present, then the fly speed
\* (with the maneuverability, else the fly_other text, in parentheses, else
\* bare), then each speed key those two parts did not consume, once, as
\* '<key> <value> ft.' ('base_other' as its value alone); no key is rendered
\* twice, fly_other used as the fly override in particular.
C13_SpeedLine ==
    (Formatted /\ ret.exc = "none")
        => TheLine("speed:") = <<"speed:", wq(ExpectedSpeed(ret.m["speeds"]))>>

---------------------------------------------------------------------------
(* Properties of the files of a batch run.                                 *)

\* the files the run created: a file of an earlier run holds OldFile
CreatedFiles == {n \in DOMAIN files : files[n] # OldFile}

\* the iteration just taken called the formatter on a new file and failed
FailedPartWay ==
    /\ Recorded
    /\ ret.fname.t = "str"
    /\ ret.fname.c \notin DOMAIN ret.files0
    /\ ret.exc # "none"

\* C14: every file a batch run created holds a whole document, ending with
\* the closing fence of the encounter table, and a record whose formatting
\* fails part-way leaves no file.
C14_CreatedFilesWhole ==
    /\ \A n \in CreatedFiles : WholeDocument(files[n])
    /\ FailedPartWay => ret.fname.c \notin DOMAIN files

====
